---- MODULE Spec2Model ----
(***************************************************************************)
(* ELC Parking App: the client's mirrored store and synchronizer           *)
(* (parking_app_UPDATED.py) and the server's occupancy store and REST      *)
(* handlers (parking_server.py).                                           *)
(*                                                                         *)
(* ClientSpec drives the public operations of ParkingLot / ParkingSystem   *)
(* against every kind of HTTP outcome of GET /api/lots.                    *)
(* Spec drives the server's request handlers on worker threads, one step   *)
(* per access to the shared store or the data file (the server has no      *)
(* lock, and Flask's development server runs each request on a thread).    *)
(* SerialSpec serves the requests one at a time, QuerySpec runs the        *)
(* client's queries on any store, and LoopSpec runs ParkingAppGUI: the     *)
(* main thread's handlers beside the daemon thread of refresh_loop.        *)
(***************************************************************************)
EXTENDS Integers, Sequences, FiniteSets, TLC

(* ------------------------------ bounds --------------------------------- *)
\* how far around 0 and around the capacity the occupancy inputs reach
InputMargin == 1
\* how many values at each end of a randint(a, b) range are drawn
RandSpread == 1
\* how far around 0 and around the capacity the toggle indices reach
IndexMargin == 1
\* request threads the server runs at once
NumThreads == 2
\* requests the server accepts in one behaviour
MaxRequests == 2
\* iterations of randomize_lot's loop after which another thread is let in
LoopYields == 1
\* the largest capacity the classifier is tried on beside the catalog's
MaxCapacity == 12
\* values of each synthetic range a tick of the client's loop draws
TickSpread == 1
\* the entry at which the malformed body of a tick is broken
TickBreak == 2
\* presses of the client's refresh button in one behaviour
MaxClicks == 1

(* ------------------------------ catalog -------------------------------- *)
LotOrder == <<"17", "18", "19", "14">>

LotIds == {LotOrder[i] : i \in 1..Len(LotOrder)}

total_spaces(lot_id) ==
    CASE lot_id = "17" -> 35
      [] lot_id = "18" -> 45
      [] lot_id = "19" -> 60
      [] lot_id = "14" -> 50

permit_type(lot_id) ==
    CASE lot_id = "17" -> "Student"
      [] lot_id = "18" -> "Staff"
      [] lot_id = "19" -> "Both"
      [] lot_id = "14" -> "Open"

Max(a, b) == IF a >= b THEN a ELSE b

Min(a, b) == IF a <= b THEN a ELSE b

\* random.randint(a, b): any integer of a..b; the model draws the values
\* within RandSpread of either end
randint(a, b) == {v \in a..b : v - a < RandSpread \/ b - v < RandSpread}

\* the synthetic occupancy of a lot when the server is unavailable
SyntheticRange(lot_id) ==
    CASE lot_id = "17" -> randint(28, 35)
      [] lot_id = "18" -> randint(40, 45)
      [] lot_id = "19" -> randint(45, 60)
      [] OTHER -> randint(15, 40)

(* --------------------------- client state ------------------------------ *)
VARIABLES
    occupied_spaces,    \* ParkingLot._occupied_spaces of each client lot
    server_connected,   \* ParkingSystem._server_connected
    last_call,          \* the last client operation, its input and result
    server_reported     \* counts the server sent in the last 200 response

clientVars == <<occupied_spaces, server_connected, last_call, server_reported>>

NoReport == [lot_id \in LotIds |-> -1]

NoCall == [op |-> "none", lot_id |-> "", n |-> 0, fetch |-> "", ret |-> ""]

\* ParkingLot.available_spaces
available_spaces(lot_id) == total_spaces(lot_id) - occupied_spaces[lot_id]

\* mutants of clamp_occupancy: the lower, or the upper, limit forgotten
clamp_occupancy_no_lower(occupied, total) == Min(occupied, total)

clamp_occupancy_no_upper(occupied, total) == Max(0, occupied)

\* the value update_occupancy stores
clamp_occupancy(occupied, total) == Max(0, Min(occupied, total))

\* ParkingSystem.is_server_connected
is_server_connected == server_connected

(* inputs of update_occupancy: integers around 0 and around the capacity *)
OccupancyInputs(lot_id) ==
    {n \in (0 - InputMargin)..(total_spaces(lot_id) + InputMargin) :
        n <= InputMargin \/ n >= total_spaces(lot_id) - InputMargin}

(* HTTP outcomes of requests.get(API_BASE/lots, timeout=2).                *)
(* kind: "timeout" / "refused" raise; "status" is a response whose         *)
(* status_code is not 200; "ok" is a 200 response whose body is lots_data  *)
(* (a list of entries); an entry with keys = FALSE lacks 'lot_id' or       *)
(* 'occupied_spaces'; "badjson" is a 200 response whose json() raises.     *)
ServerLevels ==
    {[lot_id \in LotIds |-> d] : d \in 0..InputMargin} \cup
    {[lot_id \in LotIds |-> total_spaces(lot_id) - d] : d \in 0..InputMargin}

Body(counts) ==
    [i \in 1..Len(LotOrder) |->
        [lot_id |-> LotOrder[i], occupied_spaces |-> counts[LotOrder[i]],
         keys |-> TRUE]]

BreakAt(body, p) == [i \in 1..Len(body) |->
                        IF i = p THEN [body[i] EXCEPT !.keys = FALSE] ELSE body[i]]

Raising == [kind : {"timeout", "refused"}, status_code : {0}, lots_data : {<<>>}]

NonOk == [kind : {"status"}, status_code : {404, 500}, lots_data : {<<>>}]

BadJson == [kind : {"badjson"}, status_code : {200}, lots_data : {<<>>}]

GoodBody == {[kind |-> "ok", status_code |-> 200, lots_data |-> Body(c)] :
                c \in ServerLevels}

BadBody == {[kind |-> "badentry", status_code |-> 200,
             lots_data |-> BreakAt(Body(c), p)] :
                c \in {[lot_id \in LotIds |-> 0]}, p \in 1..Len(LotOrder)}

FetchOutcomes == Raising \cup NonOk \cup BadJson \cup GoodBody \cup BadBody

\* the fetches the claims call failed
FailedKinds == {"timeout", "refused", "status", "badjson", "badentry"}

(* ParkingLot.update_occupancy *)
update_occupancy(lot_id, occupied) ==
    /\ occupied_spaces' = [occupied_spaces EXCEPT
           ![lot_id] = clamp_occupancy(occupied, total_spaces(lot_id))]
    /\ last_call' = [NoCall EXCEPT !.op = "update_occupancy",
                                   !.lot_id = lot_id, !.n = occupied]
    /\ UNCHANGED <<server_connected, server_reported>>

(* ParkingSystem.get_lot_by_id: the lot, or None for an unknown id *)
get_lot_by_id(lot_id) == IF lot_id \in LotIds THEN lot_id ELSE "None"

(* the for loop of refresh_data over lots_data[i..]: occ is the store so   *)
(* far; the result says whether a KeyError was raised and the store then   *)
RECURSIVE ApplyLots(_, _, _)
ApplyLots(lots_data, i, occ) ==
    IF i > Len(lots_data) THEN [raised |-> FALSE, occ |-> occ]
    ELSE IF ~lots_data[i].keys THEN [raised |-> TRUE, occ |-> occ]
    ELSE LET lot == get_lot_by_id(lots_data[i].lot_id)
         IN  ApplyLots(lots_data, i + 1,
                 IF lot # "None"
                 THEN [occ EXCEPT ![lot] =
                          clamp_occupancy(lots_data[i].occupied_spaces,
                                          total_spaces(lot))]
                 ELSE occ)

Reported(response) ==
    [lot_id \in LotIds |->
        LET hits == {i \in 1..Len(response.lots_data) :
                        response.lots_data[i].lot_id = lot_id}
        IN  IF hits = {} THEN -1
            ELSE response.lots_data[CHOOSE i \in hits : TRUE].occupied_spaces]

(* ParkingSystem.check_server_connection *)
check_server_connection(response) ==
    /\ IF response.kind \in {"timeout", "refused"}
       THEN /\ server_connected' = FALSE
            /\ last_call' = [NoCall EXCEPT !.op = "check_server_connection",
                                 !.fetch = response.kind, !.ret = "False"]
       ELSE /\ server_connected' = (response.status_code = 200)
            /\ last_call' = [NoCall EXCEPT !.op = "check_server_connection",
                                 !.fetch = response.kind,
                                 !.ret = IF response.status_code = 200
                                         THEN "True" ELSE "False"]
    /\ server_reported' = IF response.kind = "ok" THEN Reported(response)
                          ELSE server_reported
    /\ UNCHANGED occupied_spaces

(* the except branch of refresh_data: a synthetic count for every lot *)
Fallback(response) ==
    /\ \E n17 \in SyntheticRange("17"), n18 \in SyntheticRange("18"),
          n19 \in SyntheticRange("19"), n14 \in SyntheticRange("14") :
          LET synth == [lot_id \in LotIds |->
                           CASE lot_id = "17" -> n17
                             [] lot_id = "18" -> n18
                             [] lot_id = "19" -> n19
                             [] OTHER -> n14]
          IN  occupied_spaces' =
                [lot_id \in LotIds |->
                    clamp_occupancy(synth[lot_id], total_spaces(lot_id))]
    /\ server_connected' = FALSE
    /\ last_call' = [NoCall EXCEPT !.op = "refresh_data",
                                   !.fetch = response.kind, !.ret = "False"]
    /\ UNCHANGED server_reported

(* ParkingSystem.refresh_data *)
refresh_data(response) ==
    IF response.kind \in {"timeout", "refused", "badjson"}
    THEN Fallback(response)
    ELSE IF response.status_code = 200
    THEN LET r == ApplyLots(response.lots_data, 1, occupied_spaces)
         IN  IF r.raised
             THEN Fallback(response)
             ELSE /\ occupied_spaces' = r.occ
                  /\ server_connected' = TRUE
                  /\ server_reported' = Reported(response)
                  /\ last_call' = [NoCall EXCEPT !.op = "refresh_data",
                                       !.fetch = response.kind, !.ret = "True"]
    ELSE \* no branch taken: falls off the end of the function
         /\ last_call' = [NoCall EXCEPT !.op = "refresh_data",
                              !.fetch = response.kind, !.ret = "None"]
         /\ UNCHANGED <<occupied_spaces, server_connected, server_reported>>

(* ---------------------- classifier and policy -------------------------- *)
\* the members of the UserType enum
UserTypes == {"Student", "Staff", "Visitor"}

\* a >= b and a > b for ratios held as <<numerator, denominator>> with a
\* positive denominator.  Python divides the two integers into a float and
\* compares it with the literals 0.3 and 0; the division is correctly
\* rounded and 0.3 is the float nearest 3/10, so for counts of this size the
\* float comparison is the comparison of the exact ratios
RatioGeq(a, b) == a[1] * b[2] >= b[1] * a[2]

RatioGt(a, b) == a[1] * b[2] > b[1] * a[2]

\* mutant of get_status: the 0.3 boundary counts as Limited
get_status_strict(occupied, total) ==
    LET availability_ratio == <<total - occupied, total>>
    IN  IF RatioGt(availability_ratio, <<3, 10>>) THEN "Available"
        ELSE IF RatioGt(availability_ratio, <<0, 1>>) THEN "Limited"
        ELSE "Full"

\* ParkingLot.get_status of a lot with these occupied and total spaces
get_status(occupied, total) ==
    LET availability_ratio == <<total - occupied, total>>
    IN  IF RatioGeq(availability_ratio, <<3, 10>>) THEN "Available"
        ELSE IF RatioGt(availability_ratio, <<0, 1>>) THEN "Limited"
        ELSE "Full"

\* mutant of can_user_park: a Both lot is open to everyone
can_user_park_both_open(permit, user_type) ==
    IF permit = "Open" THEN TRUE
    ELSE IF permit = "Both" THEN TRUE
    ELSE IF permit = "Student" THEN user_type = "Student"
    ELSE IF permit = "Staff" THEN user_type = "Staff"
    ELSE FALSE

\* ParkingLot.can_user_park of a lot with this permit type
can_user_park(permit, user_type) ==
    IF permit = "Open" THEN TRUE
    ELSE IF permit = "Both" THEN user_type \in {"Student", "Staff"}
    ELSE IF permit = "Student" THEN user_type = "Student"
    ELSE IF permit = "Staff" THEN user_type = "Staff"
    ELSE FALSE

\* [lot for lot in lots[i..] if lot.can_user_park(user_type)]
RECURSIVE PermittedFrom(_, _, _)
PermittedFrom(lots, i, user_type) ==
    IF i > Len(lots) THEN <<>>
    ELSE IF can_user_park(permit_type(lots[i]), user_type)
         THEN <<lots[i]>> \o PermittedFrom(lots, i + 1, user_type)
         ELSE PermittedFrom(lots, i + 1, user_type)

\* User.get_permitted_lots
get_permitted_lots(user_type, all_lots) == PermittedFrom(all_lots, 1, user_type)

\* mutant of get_recommended_lots: the lots are taken in the order of
\* their ids
get_recommended_lots_by_id(user_type) ==
    PermittedFrom(<<"14", "17", "18", "19">>, 1, user_type)

\* mutant of get_recommended_lots: a lot without a free space is left out
get_recommended_lots_skip_full(user_type) ==
    LET HasSpace(lot_id) == occupied_spaces[lot_id] < total_spaces(lot_id)
    IN  SelectSeq(PermittedFrom(LotOrder, 1, user_type), HasSpace)

\* ParkingSystem.get_recommended_lots: self._lots is the catalog list
get_recommended_lots(user_type) == PermittedFrom(LotOrder, 1, user_type)

(* the queries as operations of the client: the store is left alone *)
GetStatus(lot_id) ==
    /\ last_call' = [op |-> "get_status", lot_id |-> lot_id,
                     ret |-> get_status(occupied_spaces[lot_id],
                                        total_spaces(lot_id))]
    /\ UNCHANGED <<occupied_spaces, server_connected, server_reported>>

CanUserPark(lot_id, user_type) ==
    /\ last_call' = [op |-> "can_user_park", lot_id |-> lot_id,
                     user_type |-> user_type,
                     ret |-> can_user_park(permit_type(lot_id), user_type)]
    /\ UNCHANGED <<occupied_spaces, server_connected, server_reported>>

GetPermittedLots(user_type) ==
    /\ last_call' = [op |-> "get_permitted_lots", user_type |-> user_type,
                     ret |-> get_permitted_lots(user_type, LotOrder)]
    /\ UNCHANGED <<occupied_spaces, server_connected, server_reported>>

GetRecommendedLots(user_type) ==
    /\ last_call' = [op |-> "get_recommended_lots", user_type |-> user_type,
                     ret |-> get_recommended_lots(user_type)]
    /\ UNCHANGED <<occupied_spaces, server_connected, server_reported>>

(* --------------------------- server state ------------------------------ *)
VARIABLES
    PARKING_LOTS,   \* the in-memory store: per lot id its record
    data_file,      \* parking_data.json: its state and the store it holds
    pc,             \* per request thread: where its handler stands
    req,            \* per request thread: the request and the handler's locals
    resp,           \* per request thread: the response of its last request
    served,         \* number of requests accepted so far
    base,           \* the store when the running batch of requests began
    log,            \* the requests accepted since then, in arrival order
    prev,           \* base and log of the batch before the running one
    save_raised     \* some save_data() of this server process has raised

serverVars == <<PARKING_LOTS, data_file, pc, req, resp, served, base, log,
                prev, save_raised>>

Threads == 1..NumThreads

Indices(lot_id) == 0..(total_spaces(lot_id) - 1)

\* mutants of AllSpaces: the other value is stored; one entry too many
AllSpacesNegated(lot_id, value) == [i \in Indices(lot_id) |-> ~value]

AllSpacesOneMore(lot_id, value) == [i \in 0..total_spaces(lot_id) |-> value]

\* [False] * total_spaces and [True] * total_spaces
AllSpaces(lot_id, value) == [i \in Indices(lot_id) |-> value]

\* the module-level PARKING_LOTS literal
DefaultLots ==
    [lot_id \in LotIds |->
        [total_spaces |-> total_spaces(lot_id),
         permit_type |-> permit_type(lot_id),
         spaces |-> AllSpaces(lot_id, FALSE)]]

\* json.dump(store, f, indent=2): a dict becomes a JSON object with the same
\* keys, a list of booleans a JSON array of the words true and false (an
\* array is a sequence: its first element is element 1)
json_dump(store) ==
    [lot_id \in DOMAIN store |->
        [total_spaces |-> store[lot_id].total_spaces,
         permit_type |-> store[lot_id].permit_type,
         spaces |-> [j \in 1..Cardinality(DOMAIN store[lot_id].spaces) |->
                        IF store[lot_id].spaces[j - 1] THEN "true" ELSE "false"]]]

\* mutant of json_load: every non-empty word is read as True
json_load_truthy(text) ==
    [lot_id \in DOMAIN text |->
        [total_spaces |-> text[lot_id].total_spaces,
         permit_type |-> text[lot_id].permit_type,
         spaces |-> [i \in 0..(Len(text[lot_id].spaces) - 1) |->
                        text[lot_id].spaces[i + 1] # ""]]]

\* json.load(f): the JSON object read back as a dict, each array as a list
\* indexed from 0
json_load(text) ==
    [lot_id \in DOMAIN text |->
        [total_spaces |-> text[lot_id].total_spaces,
         permit_type |-> text[lot_id].permit_type,
         spaces |-> [i \in 0..(Len(text[lot_id].spaces) - 1) |->
                        text[lot_id].spaces[i + 1] = "true"]]]

\* parking_data.json: absent (never written), written (a complete dump of
\* a store) or partial (a dump that broke off: its text is no JSON value)
NoFile == [state |-> "absent", text |-> json_dump(DefaultLots)]

PartialFile == [state |-> "partial", text |-> json_dump(DefaultLots)]

Written(store) == [state |-> "written", text |-> json_dump(store)]

\* load_data() at startup: the module literal, replaced by the file's store
\* when the file exists and json.load does not raise
load_data(file) ==
    IF file.state = "absent" THEN DefaultLots
    ELSE IF file.state = "partial" THEN DefaultLots
    ELSE json_load(file.text)

\* a store an earlier run of the server has left in the data file: every
\* even space occupied
MixedLots ==
    [lot_id \in LotIds |->
        [DefaultLots[lot_id] EXCEPT
            !.spaces = [i \in Indices(lot_id) |-> i % 2 = 0]]]

\* the data file the server finds when it starts
StartFiles == {NoFile, Written(MixedLots)}

\* sum(spaces): the number of True entries
Sum(spaces) == Cardinality({i \in DOMAIN spaces : spaces[i]})

get_occupied_count(lot_id) == Sum(PARKING_LOTS[lot_id].spaces)

get_available_count(lot_id) ==
    PARKING_LOTS[lot_id].total_spaces - get_occupied_count(lot_id)

\* the occupancy randomize_lot draws for a lot, branching on the lot id
RealisticRange(lot_id) ==
    CASE lot_id = "17" -> randint(28, 35)
      [] lot_id = "18" -> randint(40, 45)
      [] lot_id = "19" -> randint(45, 60)
      [] OTHER -> randint(15, 40)

\* mutant of sample: drawn with replacement, index 0 comes twice
sample_with_repeats(total, k) ==
    {[j \in 1..k |-> Max(j - 2, 0)], [j \in 1..k |-> total - j]}

\* random.sample(range(total), k): k distinct indices in some order; the
\* model draws the first k ascending and the last k descending
sample(total, k) ==
    {[j \in 1..k |-> j - 1], [j \in 1..k |-> total - j]}

(* request inputs *)
UnknownLot == "99"

ReqLotIds == LotIds \cup {UnknownLot}

IndexInputs(lot_id) ==
    IF lot_id \in LotIds
    THEN {i \in (0 - IndexMargin)..(total_spaces(lot_id) + IndexMargin - 1) :
             i < IndexMargin \/ i >= total_spaces(lot_id) - IndexMargin}
    ELSE {0 - IndexMargin, 0, total_spaces("19") + IndexMargin - 1}

NoReq == [op |-> "none", lot_id |-> "", space_index |-> 0,
          occupied_count |-> 0, occupied_indices |-> <<>>]

NoLocals == [bit |-> FALSE, pos |-> 0, i |-> 0, occ |-> 0, save_failed |-> FALSE]

NoResp == [status |-> 0, occupied |-> FALSE, occupied_count |-> 0,
           available_count |-> 0, spaces |-> <<>>, lots |-> <<>>]

Mutating == {"toggle", "reset", "fill", "random"}

Idle(t) == pc[t] \in {"idle", "done"}

(* a request is accepted by thread t: the batch restarts when no other    *)
(* request is in flight                                                    *)
Accept(t, r) ==
    /\ Idle(t)
    /\ served < MaxRequests
    /\ served' = served + 1
    /\ req' = [req EXCEPT ![t] = [r |-> r, l |-> NoLocals]]
    /\ IF \A u \in Threads : Idle(u)
       THEN /\ base' = PARKING_LOTS /\ log' = <<[t |-> t, r |-> r]>>
            /\ prev' = [base |-> base, log |-> log]
       ELSE /\ base' = base /\ log' = Append(log, [t |-> t, r |-> r])
            /\ prev' = prev
    /\ UNCHANGED save_raised

Return(t, response) ==
    /\ pc' = [pc EXCEPT ![t] = "done"]
    /\ resp' = [resp EXCEPT ![t] = response]

Goto(t, label) ==
    /\ pc' = [pc EXCEPT ![t] = label]
    /\ resp' = [resp EXCEPT ![t] = NoResp]

\* mutant of NotFound: the error body is returned without the 404
NotFoundAsOk == [NoResp EXCEPT !.status = 200]

\* jsonify({"error": "Lot not found"}), 404; the same status when no URL
\* rule matches
NotFound == [NoResp EXCEPT !.status = 404]

(* GET /api/lots: per lot, in dict order, occupied then available *)
get_all_lots(t) ==
    /\ Accept(t, [NoReq EXCEPT !.op = "get_all_lots"])
    /\ pc' = [pc EXCEPT ![t] = "all_occ"]
    /\ resp' = [resp EXCEPT ![t] = NoResp]
    /\ UNCHANGED <<PARKING_LOTS, data_file>>

all_occ(t) ==
    /\ pc[t] = "all_occ"
    /\ LET lot_id == LotOrder[req[t].l.i + 1]
       IN  req' = [req EXCEPT ![t].l.occ = get_occupied_count(lot_id)]
    /\ pc' = [pc EXCEPT ![t] = "all_avail"]
    /\ UNCHANGED <<PARKING_LOTS, data_file, resp, served, base, log, prev, save_raised>>

all_avail(t) ==
    /\ pc[t] = "all_avail"
    /\ LET lot_id == LotOrder[req[t].l.i + 1]
           entry == [lot_id |-> lot_id,
                     total_spaces |-> PARKING_LOTS[lot_id].total_spaces,
                     occupied_spaces |-> req[t].l.occ,
                     available_spaces |-> get_available_count(lot_id)]
           lots == Append(resp[t].lots, entry)
       IN  /\ resp' = [resp EXCEPT ![t] =
                  [@ EXCEPT !.lots = lots,
                            !.status = IF Len(lots) = Len(LotOrder)
                                       THEN 200 ELSE 0]]
           /\ pc' = [pc EXCEPT ![t] = IF Len(lots) = Len(LotOrder)
                                      THEN "done" ELSE "all_occ"]
    /\ req' = [req EXCEPT ![t].l.i = @ + 1]
    /\ UNCHANGED <<PARKING_LOTS, data_file, served, base, log, prev, save_raised>>

(* GET /api/lot/<lot_id> *)
get_lot(t, lot_id) ==
    /\ Accept(t, [NoReq EXCEPT !.op = "get_lot", !.lot_id = lot_id])
    /\ IF lot_id \notin DOMAIN PARKING_LOTS
       THEN Return(t, NotFound)
       ELSE Goto(t, "lot_occ")
    /\ UNCHANGED <<PARKING_LOTS, data_file>>

lot_occ(t) ==
    /\ pc[t] = "lot_occ"
    /\ resp' = [resp EXCEPT ![t].occupied_count = get_occupied_count(req[t].r.lot_id)]
    /\ pc' = [pc EXCEPT ![t] = "lot_avail"]
    /\ UNCHANGED <<PARKING_LOTS, data_file, req, served, base, log, prev, save_raised>>

lot_avail(t) ==
    /\ pc[t] = "lot_avail"
    /\ resp' = [resp EXCEPT ![t].available_count = get_available_count(req[t].r.lot_id)]
    /\ pc' = [pc EXCEPT ![t] = "lot_spaces"]
    /\ UNCHANGED <<PARKING_LOTS, data_file, req, served, base, log, prev, save_raised>>

lot_spaces(t) ==
    /\ pc[t] = "lot_spaces"
    /\ resp' = [resp EXCEPT ![t].spaces = PARKING_LOTS[req[t].r.lot_id].spaces,
                            ![t].status = 200]
    /\ pc' = [pc EXCEPT ![t] = "done"]
    /\ UNCHANGED <<PARKING_LOTS, data_file, req, served, base, log, prev, save_raised>>

\* the URL rule .../toggle/<int:space_index>: the int converter matches
\* digits only, so a path with a negative index matches no rule and Flask
\* answers 404 without calling a handler
int_converter(space_index) == space_index >= 0

(* POST /api/lot/<lot_id>/toggle/<space_index>: the routing, the checks   *)
(* and the read of the bit to negate                                       *)
toggle_space(t, lot_id, space_index) ==
    /\ Accept(t, [NoReq EXCEPT !.op = "toggle", !.lot_id = lot_id,
                               !.space_index = space_index])
    /\ IF ~int_converter(space_index)
       THEN Return(t, NotFound) /\ UNCHANGED PARKING_LOTS
       ELSE IF lot_id \notin DOMAIN PARKING_LOTS
       THEN Return(t, NotFound) /\ UNCHANGED PARKING_LOTS
       ELSE IF space_index < 0 \/ space_index >= PARKING_LOTS[lot_id].total_spaces
       THEN Return(t, [NoResp EXCEPT !.status = 400]) /\ UNCHANGED PARKING_LOTS
       ELSE /\ Goto(t, "toggle_read")
            /\ UNCHANGED PARKING_LOTS
    /\ UNCHANGED data_file

\* not lot["spaces"][space_index]
toggle_read(t) ==
    /\ pc[t] = "toggle_read"
    /\ req' = [req EXCEPT ![t].l.bit =
                  ~PARKING_LOTS[req[t].r.lot_id].spaces[req[t].r.space_index]]
    /\ pc' = [pc EXCEPT ![t] = "toggle_write"]
    /\ UNCHANGED <<PARKING_LOTS, data_file, resp, served, base, log, prev, save_raised>>

\* mutant of toggle_write: the new value lands on the next space
toggle_write_next(t) ==
    /\ pc[t] = "toggle_write"
    /\ PARKING_LOTS' = [PARKING_LOTS EXCEPT
           ![req[t].r.lot_id].spaces[(req[t].r.space_index + 1) %
               PARKING_LOTS[req[t].r.lot_id].total_spaces] = req[t].l.bit]
    /\ pc' = [pc EXCEPT ![t] = "save"]
    /\ UNCHANGED <<data_file, req, resp, served, base, log, prev, save_raised>>

\* mutant of toggle_write: the space is marked occupied, whatever it was
toggle_write_sets(t) ==
    /\ pc[t] = "toggle_write"
    /\ PARKING_LOTS' = [PARKING_LOTS EXCEPT
           ![req[t].r.lot_id].spaces[req[t].r.space_index] = TRUE]
    /\ pc' = [pc EXCEPT ![t] = "save"]
    /\ UNCHANGED <<data_file, req, resp, served, base, log, prev, save_raised>>

\* lot["spaces"][space_index] = <the negated bit>
toggle_write(t) ==
    /\ pc[t] = "toggle_write"
    /\ PARKING_LOTS' = [PARKING_LOTS EXCEPT
           ![req[t].r.lot_id].spaces[req[t].r.space_index] = req[t].l.bit]
    /\ pc' = [pc EXCEPT ![t] = "save"]
    /\ UNCHANGED <<data_file, req, resp, served, base, log, prev, save_raised>>

(* POST /api/lot/<lot_id>/reset and /fill: the check and the new list *)
reset_lot(t, lot_id) ==
    /\ Accept(t, [NoReq EXCEPT !.op = "reset", !.lot_id = lot_id])
    /\ IF lot_id \notin DOMAIN PARKING_LOTS
       THEN Return(t, NotFound) /\ UNCHANGED PARKING_LOTS
       ELSE /\ Goto(t, "save")
            /\ PARKING_LOTS' = [PARKING_LOTS EXCEPT
                   ![lot_id].spaces = AllSpaces(lot_id, FALSE)]
    /\ UNCHANGED data_file

fill_lot(t, lot_id) ==
    /\ Accept(t, [NoReq EXCEPT !.op = "fill", !.lot_id = lot_id])
    /\ IF lot_id \notin DOMAIN PARKING_LOTS
       THEN Return(t, NotFound) /\ UNCHANGED PARKING_LOTS
       ELSE /\ Goto(t, "save")
            /\ PARKING_LOTS' = [PARKING_LOTS EXCEPT
                   ![lot_id].spaces = AllSpaces(lot_id, TRUE)]
    /\ UNCHANGED data_file

(* POST /api/lot/<lot_id>/random: the check, the drawn count and sample,  *)
(* and the new all-empty list                                              *)
randomize_lot(t, lot_id, occupied_count, occupied_indices) ==
    /\ Accept(t, [NoReq EXCEPT !.op = "random", !.lot_id = lot_id,
                               !.occupied_count = occupied_count,
                               !.occupied_indices = occupied_indices])
    /\ IF lot_id \notin DOMAIN PARKING_LOTS
       THEN Return(t, NotFound) /\ UNCHANGED PARKING_LOTS
       ELSE /\ Goto(t, "fill_loop")
            /\ PARKING_LOTS' = [PARKING_LOTS EXCEPT
                   ![lot_id].spaces = AllSpaces(lot_id, FALSE)]
    /\ UNCHANGED data_file

\* the positions of the for loop at which another thread is let in
YieldPoints(k) == {p \in 1..k : p <= LoopYields \/ p = k}

\* for idx in occupied_indices: lot["spaces"][idx] = True, up to the next
\* yield point
fill_loop(t) ==
    /\ pc[t] = "fill_loop"
    /\ LET r == req[t].r
           from == req[t].l.pos
           k == Len(r.occupied_indices)
           to == IF k = 0 THEN 0
                 ELSE CHOOSE p \in YieldPoints(k) :
                        /\ p > from
                        /\ \A q \in YieldPoints(k) : q > from => p <= q
           set == {r.occupied_indices[j] : j \in (from + 1)..to}
       IN  /\ PARKING_LOTS' = [PARKING_LOTS EXCEPT ![r.lot_id].spaces =
                  [i \in DOMAIN @ |-> IF i \in set THEN TRUE ELSE @[i]]]
           /\ req' = [req EXCEPT ![t].l.pos = to]
           /\ pc' = [pc EXCEPT ![t] = IF to = k THEN "save" ELSE "fill_loop"]
    /\ UNCHANGED <<data_file, resp, served, base, log, prev, save_raised>>

\* the response that follows a successful save_data()
AfterSave(t) ==
    LET r == req[t].r
    IN  IF r.op = "toggle"
        THEN Goto(t, "toggle_resp_bit")
        ELSE IF r.op = "random"
        THEN Return(t, [NoResp EXCEPT !.status = 200,
                 !.occupied_count = r.occupied_count,
                 !.available_count =
                     PARKING_LOTS[r.lot_id].total_spaces - r.occupied_count])
        ELSE Return(t, [NoResp EXCEPT !.status = 200])

\* save_data(): json.dump of the whole store into the data file
save_data(t) ==
    /\ pc[t] = "save"
    /\ data_file' = Written(PARKING_LOTS)
    /\ AfterSave(t)
    /\ UNCHANGED <<PARKING_LOTS, req, served, base, log, prev, save_raised>>

\* mutant of StoreAfterFailedSave: the store is rolled back to the file
StoreRolledBack(store, file) == file

\* what an IOError raised by save_data() does to the store: nothing
StoreAfterFailedSave(store, file) == store

\* save_data() raises (open fails: the file is untouched; the dump fails: the
\* file is truncated); no handler catches it and Flask answers 500
save_data_raises(t) ==
    /\ pc[t] = "save"
    /\ data_file' \in {data_file, PartialFile}
    /\ PARKING_LOTS' = StoreAfterFailedSave(PARKING_LOTS, load_data(data_file))
    /\ req' = [req EXCEPT ![t].l.save_failed = TRUE]
    /\ Return(t, [NoResp EXCEPT !.status = 500])
    /\ save_raised' = TRUE
    /\ UNCHANGED <<served, base, log, prev>>

(* the success body of toggle_space: three reads of the store *)
toggle_resp_bit(t) ==
    /\ pc[t] = "toggle_resp_bit"
    /\ resp' = [resp EXCEPT ![t].occupied =
                   PARKING_LOTS[req[t].r.lot_id].spaces[req[t].r.space_index]]
    /\ pc' = [pc EXCEPT ![t] = "toggle_resp_occ"]
    /\ UNCHANGED <<PARKING_LOTS, data_file, req, served, base, log, prev, save_raised>>

toggle_resp_occ(t) ==
    /\ pc[t] = "toggle_resp_occ"
    /\ resp' = [resp EXCEPT ![t].occupied_count = get_occupied_count(req[t].r.lot_id)]
    /\ pc' = [pc EXCEPT ![t] = "toggle_resp_avail"]
    /\ UNCHANGED <<PARKING_LOTS, data_file, req, served, base, log, prev, save_raised>>

toggle_resp_avail(t) ==
    /\ pc[t] = "toggle_resp_avail"
    /\ resp' = [resp EXCEPT ![t].available_count = get_available_count(req[t].r.lot_id),
                            ![t].status = 200]
    /\ pc' = [pc EXCEPT ![t] = "done"]
    /\ UNCHANGED <<PARKING_LOTS, data_file, req, served, base, log, prev, save_raised>>

(* ------------------------ client GUI and its loop ---------------------- *)
(* ParkingAppGUI runs on two threads: the Tk main thread (__init__, then   *)
(* the event handlers of mainloop) and the daemon thread of refresh_loop.  *)
(* Both call refresh_parking_data, which runs refresh_data and then        *)
(* display_lots on the calling thread; one step per access to a lot, to    *)
(* the flags or to the network.                                            *)
VARIABLES
    auto_refresh_enabled,   \* ParkingAppGUI.auto_refresh_enabled
    gui_user_type,          \* ParkingAppGUI.user_type
    gui_pc,                 \* where each thread of the client is
    frame,                  \* the locals of the call each thread is in
    clicks,                 \* how often the refresh button was pressed
    server_state            \* the server as the latest GET /api/lots met it

guiVars == <<auto_refresh_enabled, gui_user_type, gui_pc, frame, clicks,
             server_state>>

GuiThreads == {"main", "loop"}

ServerStates == {"up", "down", "faulty"}

NoFrame == [proc |-> "", i |-> 0, lots_data |-> <<>>, todo |-> <<>>,
            view |-> <<>>, server_used |-> ""]

\* the outcomes of requests.get when it meets the server in state s: a
\* server that is up answers 200 with its snapshot, a server that is down
\* lets the request raise, a faulty one answers with an error status or a
\* bad body; the server may have changed between any two requests
TickOutcomes(s) ==
    CASE s = "up" ->
            {r \in GoodBody : r.lots_data[1].occupied_spaces = InputMargin}
      [] s = "down" -> Raising
      [] OTHER -> NonOk \cup BadJson \cup
                  {r \in BadBody : ~r.lots_data[TickBreak].keys}

\* the synthetic counts a tick draws: the lowest TickSpread values
TickDraws(lot_id) ==
    {n \in SyntheticRange(lot_id) :
        Cardinality({m \in SyntheticRange(lot_id) : m < n}) < TickSpread}

\* where a thread goes on when the call it is in returns
ReturnTo(proc) ==
    CASE proc = "__init__" -> "start_auto_refresh"
      [] proc = "refresh_loop" -> "while"
      [] OTHER -> "mainloop"

GuiGoto(t, label, locals) ==
    /\ gui_pc' = [gui_pc EXCEPT ![t] = label]
    /\ frame' = [frame EXCEPT ![t] = locals]

GuiReturn(t) == GuiGoto(t, ReturnTo(frame[t].proc), NoFrame)

\* root.destroy() has run: every widget call raises TclError
Destroyed == gui_pc["main"] \in {"destroyed", "exited"}

(* ParkingAppGUI.__init__: check_server_connection(), then the initial     *)
(* refresh_parking_data(), then start_auto_refresh()                       *)
gui_init_check ==
    /\ gui_pc["main"] = "init"
    /\ \E s \in ServerStates :
          /\ server_state' = s
          /\ \E response \in TickOutcomes(s) :
                server_connected' =
                   (/\ response.kind \notin {"timeout", "refused"}
                    /\ response.status_code = 200)
    /\ GuiGoto("main", "call", [NoFrame EXCEPT !.proc = "__init__"])
    /\ UNCHANGED <<occupied_spaces, last_call, server_reported,
                   auto_refresh_enabled, gui_user_type, clicks>>

(* refresh_parking_data is entered: refresh_data sends its request *)
refresh_parking_data(t) ==
    /\ gui_pc[t] = "call"
    /\ GuiGoto(t, "fetch", frame[t])
    /\ UNCHANGED <<clientVars, auto_refresh_enabled, gui_user_type,
                   clicks, server_state>>

(* refresh_data: requests.get returns or raises *)
rd_fetch(t) ==
    /\ gui_pc[t] = "fetch"
    /\ \E s \in ServerStates :
          /\ server_state' = s
          /\ \E response \in TickOutcomes(s) :
                IF response.kind \in {"timeout", "refused", "badjson"}
                THEN GuiGoto(t, "fallback", [frame[t] EXCEPT !.i = 1])
                ELSE IF response.status_code = 200
                THEN GuiGoto(t, "apply", [frame[t] EXCEPT !.i = 1,
                                      !.lots_data = response.lots_data])
                ELSE \* no branch taken: refresh_data returns None
                     GuiGoto(t, "display",
                             [frame[t] EXCEPT !.server_used = "None"])
    /\ UNCHANGED <<clientVars, auto_refresh_enabled, gui_user_type, clicks>>

(* refresh_data: one iteration of `for lot_data in lots_data`, or the two  *)
(* statements after the loop                                               *)
rd_apply(t) ==
    /\ gui_pc[t] = "apply"
    /\ LET i == frame[t].i
           lots_data == frame[t].lots_data
       IN  IF i > Len(lots_data)
           THEN /\ server_connected' = TRUE
                /\ GuiGoto(t, "display", [frame[t] EXCEPT !.i = 0,
                              !.lots_data = <<>>, !.server_used = "True"])
                /\ UNCHANGED occupied_spaces
           ELSE IF ~lots_data[i].keys
           THEN \* KeyError: on to the except branch
                /\ GuiGoto(t, "fallback", [frame[t] EXCEPT !.i = 1,
                                              !.lots_data = <<>>])
                /\ UNCHANGED <<occupied_spaces, server_connected>>
           ELSE LET lot == get_lot_by_id(lots_data[i].lot_id)
                IN  /\ occupied_spaces' =
                          IF lot # "None"
                          THEN [occupied_spaces EXCEPT ![lot] =
                                   clamp_occupancy(lots_data[i].occupied_spaces,
                                                   total_spaces(lot))]
                          ELSE occupied_spaces
                    /\ GuiGoto(t, "apply", [frame[t] EXCEPT !.i = i + 1])
                    /\ UNCHANGED server_connected
    /\ UNCHANGED <<last_call, server_reported, auto_refresh_enabled,
                   gui_user_type,
                   clicks, server_state>>

(* refresh_data: one iteration of `for lot in self._lots` of the except    *)
(* branch, or the two statements after the loop                            *)
rd_fallback(t) ==
    /\ gui_pc[t] = "fallback"
    /\ LET i == frame[t].i
       IN  IF i > Len(LotOrder)
           THEN /\ server_connected' = FALSE
                /\ GuiGoto(t, "display", [frame[t] EXCEPT !.i = 0,
                                             !.server_used = "False"])
                /\ UNCHANGED occupied_spaces
           ELSE /\ \E n \in TickDraws(LotOrder[i]) :
                      occupied_spaces' = [occupied_spaces EXCEPT
                          ![LotOrder[i]] =
                              clamp_occupancy(n, total_spaces(LotOrder[i]))]
                /\ GuiGoto(t, "fallback", [frame[t] EXCEPT !.i = i + 1])
                /\ UNCHANGED server_connected
    /\ UNCHANGED <<last_call, server_reported, auto_refresh_enabled,
                   gui_user_type,
                   clicks, server_state>>

(* display_lots: the cards are cleared and get_recommended_lots is called  *)
(* for the requester class of this moment                                  *)
display_lots(t) ==
    /\ gui_pc[t] = "display"
    /\ ~Destroyed
    /\ GuiGoto(t, "cards", [frame[t] EXCEPT
                               !.todo = get_recommended_lots(gui_user_type),
                               !.view = <<>>])
    /\ UNCHANGED <<clientVars, auto_refresh_enabled, gui_user_type,
                   clicks, server_state>>

(* display_lots: one iteration of `for idx, lot in enumerate(...)`, which  *)
(* reads the lot for its card, or the end of the loop                      *)
create_lot_card(t) ==
    /\ gui_pc[t] = "cards"
    /\ ~Destroyed
    /\ frame[t].todo # <<>>
    /\ LET lot == Head(frame[t].todo)
       IN  GuiGoto(t, "cards", [frame[t] EXCEPT
               !.todo = Tail(frame[t].todo),
               !.view = Append(frame[t].view,
                   [lot_id |-> lot, available_spaces |-> available_spaces(lot),
                    status |-> get_status(occupied_spaces[lot],
                                          total_spaces(lot))])])
    /\ UNCHANGED <<clientVars, auto_refresh_enabled, gui_user_type,
                   clicks, server_state>>

display_done(t) ==
    /\ gui_pc[t] = "cards"
    /\ ~Destroyed
    /\ frame[t].todo = <<>>
    /\ IF frame[t].proc = "set_user_type"
       THEN GuiReturn(t)
       ELSE GuiGoto(t, "label", [frame[t] EXCEPT !.view = <<>>])
    /\ UNCHANGED <<clientVars, auto_refresh_enabled, gui_user_type,
                   clicks, server_state>>

\* source = "server" if server_used else "simulated"
source(server_used) ==
    IF server_used = "True" THEN "server" ELSE "simulated"

(* refresh_parking_data: update_label.configure(...) and return *)
set_update_label(t) ==
    /\ gui_pc[t] = "label"
    /\ ~Destroyed
    /\ source(frame[t].server_used) \in {"server", "simulated"}
    /\ GuiReturn(t)
    /\ UNCHANGED <<clientVars, auto_refresh_enabled, gui_user_type,
                   clicks, server_state>>

\* mutant of widget_raises: refresh_loop has no try/except, the exception
\* ends its thread
widget_raises_uncaught(t) ==
    /\ t = "loop"
    /\ gui_pc[t] \in {"display", "cards", "label"}
    /\ GuiGoto(t, "done", NoFrame)
    /\ UNCHANGED <<clientVars, auto_refresh_enabled, gui_user_type,
                   clicks, server_state>>

(* a widget call raises: TclError once the root is destroyed, and at any   *)
(* time on the loop thread, which is not the thread Tk runs on; the only   *)
(* handler is the `except: pass` around refresh_loop's call                *)
widget_raises(t) ==
    /\ t = "loop"
    /\ gui_pc[t] \in {"display", "cards", "label"}
    /\ GuiGoto(t, "while", NoFrame)
    /\ UNCHANGED <<clientVars, auto_refresh_enabled, gui_user_type,
                   clicks, server_state>>

(* start_auto_refresh: no thread is alive yet, refresh_loop is started *)
start_auto_refresh ==
    /\ gui_pc["main"] = "start_auto_refresh"
    /\ gui_pc["loop"] = "unstarted"
    /\ gui_pc' = [gui_pc EXCEPT !["main"] = "mainloop", !["loop"] = "while"]
    /\ UNCHANGED <<clientVars, auto_refresh_enabled, gui_user_type,
                   frame, clicks, server_state>>

\* mutant of loop_while: `while True`
loop_while_true ==
    /\ gui_pc["loop"] = "while"
    /\ GuiGoto("loop", "sleep", NoFrame)
    /\ UNCHANGED <<clientVars, auto_refresh_enabled, gui_user_type,
                   clicks, server_state>>

(* refresh_loop: `while self.auto_refresh_enabled` *)
loop_while ==
    /\ gui_pc["loop"] = "while"
    /\ GuiGoto("loop", IF auto_refresh_enabled THEN "sleep" ELSE "done", NoFrame)
    /\ UNCHANGED <<clientVars, auto_refresh_enabled, gui_user_type,
                   clicks, server_state>>

(* refresh_loop: time.sleep(10) is over *)
loop_sleep ==
    /\ gui_pc["loop"] = "sleep"
    /\ GuiGoto("loop", "if", NoFrame)
    /\ UNCHANGED <<clientVars, auto_refresh_enabled, gui_user_type,
                   clicks, server_state>>

(* refresh_loop: `if self.auto_refresh_enabled`, the call comes next *)
loop_if ==
    /\ gui_pc["loop"] = "if"
    /\ IF auto_refresh_enabled
       THEN GuiGoto("loop", "call", [NoFrame EXCEPT !.proc = "refresh_loop"])
       ELSE GuiGoto("loop", "while", NoFrame)
    /\ UNCHANGED <<clientVars, auto_refresh_enabled, gui_user_type,
                   clicks, server_state>>

(* the handlers mainloop runs, one at a time *)
set_user_type(u) ==
    /\ gui_pc["main"] = "mainloop"
    /\ gui_user_type' = u
    /\ GuiGoto("main", "display", [NoFrame EXCEPT !.proc = "set_user_type"])
    /\ UNCHANGED <<clientVars, auto_refresh_enabled, clicks,
                   server_state>>

\* the refresh button: command=self.refresh_parking_data
refresh_btn ==
    /\ gui_pc["main"] = "mainloop"
    /\ clicks < MaxClicks
    /\ clicks' = clicks + 1
    /\ GuiGoto("main", "call", [NoFrame EXCEPT !.proc = "refresh_btn"])
    /\ UNCHANGED <<clientVars, auto_refresh_enabled, gui_user_type, server_state>>

(* on_closing: the flag is cleared, then the root is destroyed *)
on_closing ==
    /\ gui_pc["main"] = "mainloop"
    /\ auto_refresh_enabled' = FALSE
    /\ GuiGoto("main", "closing", NoFrame)
    /\ UNCHANGED <<clientVars, gui_user_type,
                   clicks, server_state>>

root_destroy ==
    /\ gui_pc["main"] = "closing"
    /\ GuiGoto("main", "destroyed", NoFrame)
    /\ UNCHANGED <<clientVars, auto_refresh_enabled, gui_user_type,
                   clicks, server_state>>

(* mainloop returns, main() returns and the interpreter exits: the daemon  *)
(* thread is stopped wherever it is                                        *)
process_exit ==
    /\ gui_pc["main"] = "destroyed"
    /\ gui_pc' = [gui_pc EXCEPT !["main"] = "exited",
                     !["loop"] = IF gui_pc["loop"] = "done" THEN "done"
                                 ELSE "killed"]
    /\ frame' = [t \in GuiThreads |-> NoFrame]
    /\ UNCHANGED <<clientVars, auto_refresh_enabled, gui_user_type,
                   clicks, server_state>>

vars == <<occupied_spaces, server_connected, last_call, server_reported,
          PARKING_LOTS, data_file, pc, req, resp, served, base, log,
          prev, save_raised, auto_refresh_enabled, gui_user_type,
          gui_pc, frame, clicks, server_state>>

\* the client after ParkingSystem.__init__
ClientInit ==
    /\ occupied_spaces = [lot_id \in LotIds |-> 0]
    /\ server_connected = FALSE
    /\ last_call = NoCall
    /\ server_reported = NoReport

\* the server process started beside the data file `file`: the module
\* literal, then load_data()
ServerInit(file) ==
    /\ PARKING_LOTS = load_data(file)
    /\ data_file = file
    /\ pc = [t \in Threads |-> "idle"]
    /\ req = [t \in Threads |-> [r |-> NoReq, l |-> NoLocals]]
    /\ resp = [t \in Threads |-> NoResp]
    /\ served = 0
    /\ base = load_data(file)
    /\ log = <<>>
    /\ prev = [base |-> load_data(file), log |-> <<>>]
    /\ save_raised = FALSE

\* the GUI object before ParkingAppGUI.__init__ has checked the server
GuiInit ==
    /\ auto_refresh_enabled = TRUE
    /\ gui_user_type = "Student"
    /\ gui_pc = [t \in GuiThreads |-> IF t = "main" THEN "init" ELSE "unstarted"]
    /\ frame = [t \in GuiThreads |-> NoFrame]
    /\ clicks = 0

\* first start: there is no data file yet
Init == ClientInit /\ ServerInit(NoFile) /\ GuiInit /\ server_state = "up"

UpdateOccupancy ==
    /\ \E lot_id \in LotIds : \E n \in OccupancyInputs(lot_id) :
          update_occupancy(lot_id, n)
    /\ UNCHANGED <<serverVars, guiVars>>

CheckServerConnection ==
    /\ \E response \in FetchOutcomes : check_server_connection(response)
    /\ UNCHANGED <<serverVars, guiVars>>

RefreshData ==
    /\ \E response \in FetchOutcomes : refresh_data(response)
    /\ UNCHANGED <<serverVars, guiVars>>

ClientNext == UpdateOccupancy \/ CheckServerConnection \/ RefreshData

ClientSpec == Init /\ [][ClientNext]_vars

GetAllLots ==
    /\ \E t \in Threads : get_all_lots(t) \/ all_occ(t) \/ all_avail(t)
    /\ UNCHANGED <<clientVars, guiVars>>

GetLot ==
    /\ \E t \in Threads :
          \/ \E lot_id \in ReqLotIds : get_lot(t, lot_id)
          \/ lot_occ(t) \/ lot_avail(t) \/ lot_spaces(t)
    /\ UNCHANGED <<clientVars, guiVars>>

ToggleSpace ==
    /\ \E t \in Threads :
          \/ \E lot_id \in ReqLotIds : \E space_index \in IndexInputs(lot_id) :
                toggle_space(t, lot_id, space_index)
          \/ toggle_read(t) \/ toggle_write(t)
          \/ toggle_resp_bit(t) \/ toggle_resp_occ(t) \/ toggle_resp_avail(t)
    /\ UNCHANGED <<clientVars, guiVars>>

ResetLot ==
    /\ \E t \in Threads : \E lot_id \in ReqLotIds : reset_lot(t, lot_id)
    /\ UNCHANGED <<clientVars, guiVars>>

FillLot ==
    /\ \E t \in Threads : \E lot_id \in ReqLotIds : fill_lot(t, lot_id)
    /\ UNCHANGED <<clientVars, guiVars>>

RandomizeLot ==
    /\ \E t \in Threads :
          \/ \E lot_id \in ReqLotIds :
               \E k \in RealisticRange(lot_id) :
                 \E indices \in sample(IF lot_id \in LotIds
                                       THEN total_spaces(lot_id) ELSE k, k) :
                    randomize_lot(t, lot_id, k, indices)
          \/ fill_loop(t)
    /\ UNCHANGED <<clientVars, guiVars>>

SaveData ==
    /\ \E t \in Threads : save_data(t)
    /\ UNCHANGED <<clientVars, guiVars>>

SaveDataRaises ==
    /\ \E t \in Threads : save_data_raises(t)
    /\ UNCHANGED <<clientVars, guiVars>>

(* the client's queries on any store it can hold: one lot at any count of *)
(* 0..capacity, the others empty, either as the counts a server reported   *)
(* (Connected) or not (Disconnected)                                       *)
QueryInit ==
    /\ \E lot_id \in LotIds : \E n \in 0..total_spaces(lot_id) :
          occupied_spaces = [l \in LotIds |-> IF l = lot_id THEN n ELSE 0]
    /\ server_connected \in BOOLEAN
    /\ last_call = NoCall
    /\ server_reported = IF server_connected THEN occupied_spaces ELSE NoReport
    /\ ServerInit(NoFile)
    /\ GuiInit /\ server_state = "up"

QueryStatus ==
    /\ \E lot_id \in LotIds : GetStatus(lot_id)
    /\ UNCHANGED <<serverVars, guiVars>>

QueryCanUserPark ==
    /\ \E lot_id \in LotIds : \E user_type \in UserTypes :
          CanUserPark(lot_id, user_type)
    /\ UNCHANGED <<serverVars, guiVars>>

QueryPermittedLots ==
    /\ \E user_type \in UserTypes : GetPermittedLots(user_type)
    /\ UNCHANGED <<serverVars, guiVars>>

QueryRecommendedLots ==
    /\ \E user_type \in UserTypes : GetRecommendedLots(user_type)
    /\ UNCHANGED <<serverVars, guiVars>>

QueryNext ==
    \/ QueryStatus \/ QueryCanUserPark \/ QueryPermittedLots
    \/ QueryRecommendedLots

QuerySpec == QueryInit /\ [][QueryNext]_vars

\* the server process is stopped and started again: the requests in flight
\* are gone, the module literal is built anew and __main__ calls load_data()
Restart ==
    /\ PARKING_LOTS' = load_data(data_file)
    /\ pc' = [t \in Threads |-> "idle"]
    /\ req' = [t \in Threads |-> [r |-> NoReq, l |-> NoLocals]]
    /\ resp' = [t \in Threads |-> NoResp]
    /\ base' = load_data(data_file)
    /\ log' = <<>>
    /\ prev' = [base |-> load_data(data_file), log |-> <<>>]
    /\ save_raised' = FALSE
    /\ UNCHANGED <<data_file, served>>
    /\ UNCHANGED <<clientVars, guiVars>>

Next ==
    \/ GetAllLots \/ GetLot \/ ToggleSpace \/ ResetLot \/ FillLot
    \/ RandomizeLot \/ SaveData \/ SaveDataRaises \/ Restart

Spec == Init /\ [][Next]_vars

(* the server answering one request at a time (no two requests overlap:   *)
(* every request is handled by the first thread), started beside any of    *)
(* the data files an earlier run may have left                             *)
OneAtATime == \A t \in Threads : t # 1 => pc[t] = "idle"

SerialInit ==
    /\ ClientInit /\ GuiInit /\ server_state = "up"
    /\ \E file \in StartFiles : ServerInit(file)

SerialGetAllLots == GetAllLots /\ OneAtATime'

SerialGetLot == GetLot /\ OneAtATime'

SerialToggleSpace == ToggleSpace /\ OneAtATime'

SerialResetLot == ResetLot /\ OneAtATime'

SerialFillLot == FillLot /\ OneAtATime'

SerialRandomizeLot == RandomizeLot /\ OneAtATime'

SerialNext ==
    \/ SerialGetAllLots \/ SerialGetLot \/ SerialToggleSpace \/ SerialResetLot
    \/ SerialFillLot \/ SerialRandomizeLot \/ SaveData \/ SaveDataRaises
    \/ Restart

SerialSpec == SerialInit /\ [][SerialNext]_vars

(* the client application: __init__, then mainloop's handlers on the main  *)
(* thread beside refresh_loop on its daemon thread                         *)
GuiInitCheck ==
    /\ gui_init_check
    /\ UNCHANGED serverVars

RefreshParkingData ==
    /\ \E t \in GuiThreads : refresh_parking_data(t)
    /\ UNCHANGED serverVars

RdFetch ==
    /\ \E t \in GuiThreads : rd_fetch(t)
    /\ UNCHANGED serverVars

RdApply ==
    /\ \E t \in GuiThreads : rd_apply(t)
    /\ UNCHANGED serverVars

RdFallback ==
    /\ \E t \in GuiThreads : rd_fallback(t)
    /\ UNCHANGED serverVars

DisplayLots ==
    /\ \E t \in GuiThreads : display_lots(t)
    /\ UNCHANGED serverVars

CreateLotCard ==
    /\ \E t \in GuiThreads : create_lot_card(t)
    /\ UNCHANGED serverVars

DisplayDone ==
    /\ \E t \in GuiThreads : display_done(t)
    /\ UNCHANGED serverVars

SetUpdateLabel ==
    /\ \E t \in GuiThreads : set_update_label(t)
    /\ UNCHANGED serverVars

WidgetRaises ==
    /\ \E t \in GuiThreads : widget_raises(t)
    /\ UNCHANGED serverVars

StartAutoRefresh ==
    /\ start_auto_refresh
    /\ UNCHANGED serverVars

LoopWhile ==
    /\ loop_while
    /\ UNCHANGED serverVars

LoopSleep ==
    /\ loop_sleep
    /\ UNCHANGED serverVars

LoopIf ==
    /\ loop_if
    /\ UNCHANGED serverVars

SetUserType ==
    /\ \E u \in UserTypes : set_user_type(u)
    /\ UNCHANGED serverVars

RefreshBtn ==
    /\ refresh_btn
    /\ UNCHANGED serverVars

OnClosing ==
    /\ on_closing
    /\ UNCHANGED serverVars

RootDestroy ==
    /\ root_destroy
    /\ UNCHANGED serverVars

ProcessExit ==
    /\ process_exit
    /\ UNCHANGED serverVars

LoopNext ==
    \/ GuiInitCheck \/ RefreshParkingData \/ RdFetch \/ RdApply
    \/ RdFallback \/ DisplayLots \/ CreateLotCard \/ DisplayDone
    \/ SetUpdateLabel \/ WidgetRaises \/ StartAutoRefresh
    \/ LoopWhile \/ LoopSleep \/ LoopIf
    \/ SetUserType \/ RefreshBtn \/ OnClosing \/ RootDestroy \/ ProcessExit

LoopInit ==
    /\ ClientInit
    /\ ServerInit(NoFile)
    /\ GuiInit
    /\ server_state = "up"

LoopSpec == LoopInit /\ [][LoopNext]_vars

\* the steps thread t takes by itself once it is scheduled: the code of
\* __init__ and of the handler it is in (main), of refresh_loop (loop)
ThreadRuns(t) ==
    /\ \/ refresh_parking_data(t) \/ rd_fetch(t) \/ rd_apply(t)
       \/ rd_fallback(t) \/ display_lots(t) \/ create_lot_card(t)
       \/ display_done(t) \/ set_update_label(t) \/ widget_raises(t)
       \/ (t = "main" /\ (gui_init_check \/ start_auto_refresh))
       \/ (t = "loop" /\ (loop_while \/ loop_sleep \/ loop_if))
    /\ UNCHANGED serverVars

\* both threads keep being scheduled; requests.get returns or raises
\* within its timeout and time.sleep(10) ends; nothing is assumed about
\* the user's clicks, the server's answers or the end of the process
LoopFairSpec ==
    LoopSpec /\ WF_vars(ThreadRuns("main")) /\ WF_vars(ThreadRuns("loop"))

(* ============================== claims ================================= *)

\* C1: in every reachable client state every lot has
\* 0 <= occupied_spaces <= total_spaces, hence 0 <= available_spaces <= total_spaces.
C1_MirroredStoreInRange ==
    \A lot_id \in LotIds :
        /\ 0 <= occupied_spaces[lot_id]
        /\ occupied_spaces[lot_id] <= total_spaces(lot_id)
        /\ 0 <= available_spaces(lot_id)
        /\ available_spaces(lot_id) <= total_spaces(lot_id)

\* an out-of-range update_occupancy has been clamped, and a fallback refresh ran
C1_Witness ==
    \/ /\ last_call.op = "update_occupancy"
       /\ last_call.n < 0
       /\ occupied_spaces[last_call.lot_id] = 0
       /\ \E lot_id \in LotIds : occupied_spaces[lot_id] = total_spaces(lot_id)
    \/ /\ last_call.op = "update_occupancy"
       /\ last_call.n > total_spaces(last_call.lot_id)
       /\ server_reported # NoReport

\* C2: update_occupancy(n) on a lot of capacity C always succeeds and stores
\* min(max(n, 0), C): available is C for n < 0, 0 for n > C, C - n otherwise.
C2_UpdateOccupancyClamps ==
    /\ \A lot_id \in LotIds : \A n \in OccupancyInputs(lot_id) :
           ENABLED update_occupancy(lot_id, n)
    /\ \A C \in 1..(InputMargin + 2) : \A n \in (0 - InputMargin)..(C + InputMargin) :
           clamp_occupancy(n, C) = Min(Max(n, 0), C)
    /\ last_call.op = "update_occupancy" =>
           LET C == total_spaces(last_call.lot_id)
               n == last_call.n
               stored == occupied_spaces[last_call.lot_id]
               avail == C - stored
           IN  /\ stored = Min(Max(n, 0), C)
               /\ n < 0 => avail = C
               /\ n > C => avail = 0
               /\ (0 <= n /\ n <= C) => avail = C - n

\* an update above the capacity left no space available
C2_Witness ==
    /\ last_call.op = "update_occupancy"
    /\ last_call.n > total_spaces(last_call.lot_id)
    /\ available_spaces(last_call.lot_id) = 0

\* C3: a refresh_data() whose fetch failed (timeout, refused, malformed
\* body, non-200 status) leaves the client Disconnected, and one whose
\* fetch succeeded leaves it Connected.
C3_RefreshSetsConnection ==
    last_call.op = "refresh_data" =>
        /\ last_call.fetch \in FailedKinds => ~is_server_connected
        /\ last_call.fetch = "ok" => is_server_connected

\* C4: while the client is Connected every lot's occupied count is the
\* count the server reported in the most recent successful fetch.
C4_ConnectedMirrorsServer ==
    (is_server_connected /\ server_reported # NoReport) =>
        \A lot_id \in LotIds : occupied_spaces[lot_id] = server_reported[lot_id]

\* C5: after a refresh_data() whose fetch failed every lot holds a
\* synthetic count of its range: 17 in 28..35, 18 in 40..45, 19 in 45..60,
\* 14 in 15..40, each range inside 0..capacity.
C5_FallbackOnFailure ==
    (last_call.op = "refresh_data" /\ last_call.fetch \in FailedKinds) =>
        /\ occupied_spaces["17"] \in 28..35
        /\ occupied_spaces["18"] \in 40..45
        /\ occupied_spaces["19"] \in 45..60
        /\ occupied_spaces["14"] \in 15..40

(* ------------------- serial meaning of the requests -------------------- *)
\* the store after request r has run alone on it
Apply(store, r) ==
    IF r.lot_id \notin LotIds THEN store
    ELSE LET total == store[r.lot_id].total_spaces
             old == store[r.lot_id].spaces
         IN  CASE r.op = "toggle" /\ r.space_index >= 0 /\ r.space_index < total ->
                    [store EXCEPT ![r.lot_id].spaces =
                        [old EXCEPT ![r.space_index] = ~old[r.space_index]]]
               [] r.op = "reset" ->
                    [store EXCEPT ![r.lot_id].spaces = [i \in 0..(total - 1) |-> FALSE]]
               [] r.op = "fill" ->
                    [store EXCEPT ![r.lot_id].spaces = [i \in 0..(total - 1) |-> TRUE]]
               [] r.op = "random" ->
                    [store EXCEPT ![r.lot_id].spaces =
                        [i \in 0..(total - 1) |->
                            \E j \in 1..Len(r.occupied_indices) :
                                r.occupied_indices[j] = i]]
               [] OTHER -> store

\* the stores some serial run of all the requests log[i], i in todo, ends in
RECURSIVE SerialFinals(_, _)
SerialFinals(store, todo) ==
    IF todo = {} THEN {store}
    ELSE UNION {SerialFinals(Apply(store, log[i].r), todo \ {i}) : i \in todo}

\* the stores some serial run of some of the requests passes through
RECURSIVE SerialStores(_, _)
SerialStores(store, todo) ==
    {store} \cup
    UNION {SerialStores(Apply(store, log[i].r), todo \ {i}) : i \in todo}

AllIdle == \A t \in Threads : Idle(t)

\* thread t's last request belongs to the running batch
InBatch(t) == \E i \in 1..Len(log) : log[i].t = t

\* thread t's request changes a bitmap when run alone
Mutates(r) ==
    /\ r.op \in Mutating
    /\ r.lot_id \in LotIds
    /\ r.op = "toggle" => (r.space_index >= 0 /\ r.space_index < total_spaces(r.lot_id))

\* C6: when concurrent mutating requests have all returned, the store is
\* the result of running them one after the other in some order.
C6_MutationsSerializable ==
    AllIdle => PARKING_LOTS \in SerialFinals(base, 1..Len(log))

\* C7: a GET running next to mutating requests reports, for a lot, only a
\* count and a bitmap the lot has before or after a mutation, never an
\* intermediate one.
C7_ReadsSeeConsistentSnapshot ==
    \A t \in Threads :
        (pc[t] = "done" /\ InBatch(t) /\ resp[t].status = 200) =>
            LET stores == SerialStores(base, 1..Len(log))
                r == req[t].r
            IN  /\ r.op = "get_lot" =>
                      /\ \E s \in stores :
                            resp[t].occupied_count = Sum(s[r.lot_id].spaces)
                      /\ \E s \in stores : resp[t].spaces = s[r.lot_id].spaces
                /\ r.op = "get_all_lots" =>
                      \A i \in 1..Len(resp[t].lots) :
                         \E s \in stores :
                            resp[t].lots[i].occupied_spaces =
                                Sum(s[resp[t].lots[i].lot_id].spaces)

\* C8: at the moment a mutating request returns its success response the
\* data file holds exactly the in-memory store.
C8_WriteThrough ==
    [][\A t \in Threads :
          (pc[t] # "done" /\ pc'[t] = "done" /\ resp'[t].status = 200
              /\ req[t].r.op \in Mutating) =>
             data_file' = Written(PARKING_LOTS')]_vars

\* C9: a save_data() that fails leaves the mutated bitmap in memory (it is
\* not rolled back while no other mutation runs), and every read of a
\* count or bitmap reports the in-memory store, not the older data file.
C9_FailedSaveKeepsMutation ==
    [][\A t \in Threads :
          /\ (pc'[t] = "done" /\ req'[t].l.save_failed /\ InBatch(t)'
                /\ \A i \in 1..Len(log') :
                      log'[i].t # t => ~Mutates(log'[i].r)) =>
                PARKING_LOTS' = Apply(base', req'[t].r)
          /\ (pc[t] = "lot_occ" /\ pc'[t] = "lot_avail") =>
                resp'[t].occupied_count =
                    Cardinality({i \in DOMAIN PARKING_LOTS[req[t].r.lot_id].spaces :
                                    PARKING_LOTS[req[t].r.lot_id].spaces[i]})
          /\ (pc[t] = "lot_spaces" /\ pc'[t] = "done") =>
                resp'[t].spaces = PARKING_LOTS[req[t].r.lot_id].spaces
          /\ (pc[t] = "all_occ" /\ pc'[t] = "all_avail") =>
                LET lot_id == LotOrder[req[t].l.i + 1]
                IN  req'[t].l.occ =
                      Cardinality({i \in DOMAIN PARKING_LOTS[lot_id].spaces :
                                      PARKING_LOTS[lot_id].spaces[i]})]_vars

\* a mutation's save failed and its request returned; a GET accepted after
\* that reported the mutated bitmap, which the data file does not hold
C9_Witness ==
    \E t \in Threads, u \in Threads :
        /\ pc[t] = "done" /\ req[t].l.save_failed /\ Mutates(req[t].r)
        /\ ~InBatch(t) /\ InBatch(u)
        /\ pc[u] = "done" /\ req[u].r.op = "get_lot" /\ resp[u].status = 200
        /\ req[u].r.lot_id = req[t].r.lot_id
        /\ resp[u].spaces = PARKING_LOTS[req[t].r.lot_id].spaces
        /\ resp[u].occupied_count > 0
        /\ resp[u].spaces # load_data(data_file)[req[t].r.lot_id].spaces

\* C10: when save_data() fails during a mutating request the caller still
\* gets the success response (with the failure reported beside it).
C10_SoftPersistenceFailure ==
    \A t \in Threads :
        (pc[t] = "done" /\ req[t].l.save_failed) => resp[t].status = 200

\* C11: after any sequence of successful mutating requests, stopping the
\* server and running load_data() on the file the last save_data() wrote
\* gives back the store as it was before the shutdown: every lot's bitmap,
\* capacity and permit type.
C11_RestartRoundTrip ==
    [][/\ (AllIdle /\ ~save_raised) => load_data(data_file) = PARKING_LOTS
       /\ (Restart /\ AllIdle /\ ~save_raised) =>
             \A lot_id \in LotIds :
                /\ PARKING_LOTS'[lot_id].spaces = PARKING_LOTS[lot_id].spaces
                /\ PARKING_LOTS'[lot_id].total_spaces = PARKING_LOTS[lot_id].total_spaces
                /\ PARKING_LOTS'[lot_id].permit_type = PARKING_LOTS[lot_id].permit_type]_vars

\* the server was restarted after successful mutations: no request is
\* left, and the store it loaded is the written one, neither the literal
\* nor the store it first started with
C11_Witness ==
    /\ served > 0 /\ ~save_raised
    /\ \A t \in Threads : pc[t] = "idle" /\ req[t].r = NoReq
    /\ data_file.state = "written"
    /\ PARKING_LOTS = load_data(data_file)
    /\ PARKING_LOTS \notin {DefaultLots, MixedLots}
    /\ \E lot_id \in LotIds :
          /\ get_occupied_count(lot_id) > 0
          /\ get_available_count(lot_id) > 0

\* the running batch is one request that came right after a batch of one
\* request, both returned: two consecutive requests
TwoConsecutive == AllIdle /\ Len(prev.log) = 1 /\ Len(log) = 1

\* C12: two consecutive successful toggles of the same valid index of the
\* same lot, with no other mutation in between, bring the lot's whole
\* bitmap, and with it the occupied and available counts, back to what
\* they were before the first toggle.
C12_ToggleTwiceRestores ==
    (/\ TwoConsecutive
     /\ log[1].r.op = "toggle" /\ Mutates(log[1].r)
     /\ prev.log[1].r = log[1].r) =>
        LET lot_id == log[1].r.lot_id
            before == prev.base[lot_id].spaces
        IN  /\ PARKING_LOTS[lot_id].spaces = before
            /\ PARKING_LOTS = prev.base
            /\ get_occupied_count(lot_id) = Sum(before)
            /\ get_available_count(lot_id) = total_spaces(lot_id) - Sum(before)
            /\ resp[log[1].t].status = 200 =>
                  /\ resp[log[1].t].occupied = before[log[1].r.space_index]
                  /\ resp[log[1].t].occupied_count = Sum(before)
                  /\ resp[log[1].t].available_count =
                        total_spaces(lot_id) - Sum(before)

\* an occupied space of a partly occupied lot was toggled twice, both
\* requests answered 200, and the first toggle had freed it
C12_Witness ==
    /\ TwoConsecutive
    /\ log[1].r.op = "toggle" /\ Mutates(log[1].r)
    /\ prev.log[1].r = log[1].r
    /\ resp[log[1].t].status = 200 /\ ~save_raised
    /\ prev.base[log[1].r.lot_id].spaces[log[1].r.space_index]
    /\ ~base[log[1].r.lot_id].spaces[log[1].r.space_index]
    /\ PARKING_LOTS[log[1].r.lot_id].spaces[log[1].r.space_index]
    /\ get_available_count(log[1].r.lot_id) > 0

\* C13: when a random request on a lot has completed, the lot's bitmap has
\* exactly the k true bits the response reports as occupied_count, the
\* reported available_count is capacity - k, the bitmap has capacity
\* entries, and k lies in the lot's range (17: 28..35, 18: 40..45,
\* 19: 45..60, 14: 15..40), whatever the bitmap was before.
C13_RandomYieldsK ==
    \A t \in Threads :
        (pc[t] = "done" /\ req[t].r.op = "random" /\ resp[t].status = 200) =>
            LET lot_id == req[t].r.lot_id
                k == resp[t].occupied_count
            IN  /\ Sum(PARKING_LOTS[lot_id].spaces) = k
                /\ get_occupied_count(lot_id) = k
                /\ resp[t].available_count = total_spaces(lot_id) - k
                /\ get_available_count(lot_id) = resp[t].available_count
                /\ DOMAIN PARKING_LOTS[lot_id].spaces = 0..(total_spaces(lot_id) - 1)
                /\ lot_id = "17" => k \in 28..35
                /\ lot_id = "18" => k \in 40..45
                /\ lot_id = "19" => k \in 45..60
                /\ lot_id = "14" => k \in 15..40

\* a random request on a partly occupied lot completed and emptied a space
\* that was occupied before, leaving fewer occupied spaces than capacity
C13_Witness ==
    \E t \in Threads :
        /\ pc[t] = "done" /\ req[t].r.op = "random" /\ resp[t].status = 200
        /\ resp[t].occupied_count < total_spaces(req[t].r.lot_id)
        /\ \E i \in Indices(req[t].r.lot_id) :
              /\ base[req[t].r.lot_id].spaces[i]
              /\ ~PARKING_LOTS[req[t].r.lot_id].spaces[i]

\* the operations whose URL carries a lot id
LotOps == {"get_lot", "toggle", "reset", "fill", "random"}

\* C14: every endpoint that takes a lot id (get one lot, toggle, reset,
\* fill, random) answers 404 when the id is not a catalog id, also when a
\* toggle's index is invalid as well; the request then changes no lot's
\* bitmap and writes nothing to the data file.
C14_UnknownLotNotFound ==
    [][/\ \A t \in Threads :
             (req'[t].r.op \in LotOps /\ req'[t].r.lot_id \notin LotIds) =>
                 /\ pc'[t] = "done"
                 /\ resp'[t].status = 404
       /\ (/\ served' = served + 1
           /\ log'[Len(log')].r.op \in LotOps
           /\ log'[Len(log')].r.lot_id \notin LotIds) =>
                 /\ pc'[log'[Len(log')].t] = "done"
                 /\ PARKING_LOTS' = PARKING_LOTS
                 /\ data_file' = data_file]_vars

\* a toggle for an unknown lot with an index beyond every capacity and a
\* random request for an unknown lot were both answered 404, and neither
\* the store nor the data file was touched
C14_Witness ==
    \E t \in Threads, u \in Threads :
        /\ pc[t] = "done" /\ req[t].r.op = "toggle"
        /\ req[t].r.lot_id = UnknownLot
        /\ req[t].r.space_index >= total_spaces("19")
        /\ resp[t].status = 404
        /\ pc[u] = "done" /\ req[u].r.op = "random"
        /\ req[u].r.lot_id = UnknownLot /\ resp[u].status = 404
        /\ PARKING_LOTS = DefaultLots /\ data_file = NoFile

\* a toggle whose lot is known and whose index is outside 0..capacity-1
InvalidIndex(r) ==
    /\ r.op = "toggle" /\ r.lot_id \in LotIds
    /\ (r.space_index < 0 \/ r.space_index >= total_spaces(r.lot_id))

\* C15: a toggle on a known lot with an index outside 0 <= index < capacity
\* (negative, equal to capacity, or larger) is answered 400, flips no bit of
\* any lot and writes nothing to the data file.
C15_InvalidIndexOutOfRange ==
    [][(served' = served + 1 /\ InvalidIndex(log'[Len(log')].r)) =>
          /\ pc'[log'[Len(log')].t] = "done"
          /\ resp'[log'[Len(log')].t].status = 400
          /\ PARKING_LOTS' = PARKING_LOTS
          /\ data_file' = data_file]_vars

\* C16: after a reset request on a known lot every bit of the lot is false
\* (occupied 0, available = capacity), after a fill request every bit is
\* true (occupied = capacity, available 0), whatever the bitmap was before;
\* a second reset (fill) changes nothing, and the bitmaps of all other lots
\* stay as they were.
C16_ResetAndFill ==
    \A t \in Threads :
        (pc[t] = "done" /\ req[t].r.op \in {"reset", "fill"}
            /\ req[t].r.lot_id \in LotIds) =>
            LET lot_id == req[t].r.lot_id
                full == (req[t].r.op = "fill")
            IN  /\ DOMAIN PARKING_LOTS[lot_id].spaces = Indices(lot_id)
                /\ \A i \in Indices(lot_id) :
                      PARKING_LOTS[lot_id].spaces[i] = full
                /\ get_occupied_count(lot_id) =
                      IF full THEN total_spaces(lot_id) ELSE 0
                /\ get_available_count(lot_id) =
                      IF full THEN 0 ELSE total_spaces(lot_id)
                /\ \A other \in LotIds \ {lot_id} :
                      PARKING_LOTS[other].spaces = base[other].spaces
                /\ (TwoConsecutive /\ prev.log[1].r = log[1].r) =>
                      PARKING_LOTS = base

\* a partly occupied lot was filled twice in a row, both requests answered
\* 200, beside another lot that is partly occupied
C16_Witness ==
    \E t \in Threads :
        /\ pc[t] = "done" /\ req[t].r.op = "fill" /\ req[t].r.lot_id \in LotIds
        /\ resp[t].status = 200 /\ ~save_raised
        /\ TwoConsecutive /\ prev.log[1].r = log[1].r
        /\ Sum(prev.base[req[t].r.lot_id].spaces) \in
              1..(total_spaces(req[t].r.lot_id) - 1)
        /\ get_available_count(req[t].r.lot_id) = 0
        /\ \E other \in LotIds \ {req[t].r.lot_id} :
              /\ get_occupied_count(other) > 0
              /\ get_available_count(other) > 0

\* C17: in every state the server reaches from the default catalog by
\* toggle, reset, fill and random requests, valid or invalid, each lot's
\* bitmap has exactly total_spaces entries, 0 <= occupied <= total_spaces
\* and available = total_spaces - occupied.
C17_ServerStoreInvariant ==
    /\ DOMAIN PARKING_LOTS = LotIds
    /\ \A lot_id \in LotIds :
          /\ PARKING_LOTS[lot_id].total_spaces = total_spaces(lot_id)
          /\ DOMAIN PARKING_LOTS[lot_id].spaces =
                0..(PARKING_LOTS[lot_id].total_spaces - 1)
          /\ \A i \in DOMAIN PARKING_LOTS[lot_id].spaces :
                PARKING_LOTS[lot_id].spaces[i] \in BOOLEAN
          /\ 0 <= get_occupied_count(lot_id)
          /\ get_occupied_count(lot_id) <= PARKING_LOTS[lot_id].total_spaces
          /\ get_available_count(lot_id) =
                PARKING_LOTS[lot_id].total_spaces - get_occupied_count(lot_id)
          /\ 0 <= get_available_count(lot_id)
          /\ get_available_count(lot_id) <= PARKING_LOTS[lot_id].total_spaces

\* a toggle of the index equal to the capacity was refused with 400 after
\* a random request had changed the same lot
C17_Witness ==
    \E t \in Threads, u \in Threads :
        /\ pc[t] = "done" /\ req[t].r.op = "toggle"
        /\ req[t].r.lot_id \in LotIds
        /\ req[t].r.space_index = total_spaces(req[t].r.lot_id)
        /\ resp[t].status = 400
        /\ pc[u] = "done" /\ req[u].r.op = "random"
        /\ req[u].r.lot_id = req[t].r.lot_id /\ resp[u].status = 200
        /\ get_occupied_count(req[t].r.lot_id) > 0
        /\ get_available_count(req[t].r.lot_id) > 0

\* the classification of a lot with `available` free spaces of `capacity`
Classified(status, available, capacity) ==
    /\ status \in {"Available", "Limited", "Full"}
    /\ status = "Available" <=> 10 * available >= 3 * capacity
    /\ status = "Limited" <=> (0 < available /\ 10 * available < 3 * capacity)
    /\ status = "Full" <=> available = 0

\* C18: get_status is a total function of (occupied, capacity), capacity > 0
\* and 0 <= occupied <= capacity, with exactly one of three values:
\* Available when 10 * available >= 3 * capacity (the boundary included,
\* 15 free of 50), Limited when 0 < available and 10 * available <
\* 3 * capacity, Full exactly when available = 0.
C18_StatusClassification ==
    /\ \A lot_id \in LotIds : ENABLED GetStatus(lot_id)
    /\ \A capacity \in 1..MaxCapacity : \A occupied \in 0..capacity :
          Classified(get_status(occupied, capacity), capacity - occupied, capacity)
    /\ last_call.op = "get_status" =>
          Classified(last_call.ret, available_spaces(last_call.lot_id),
                     total_spaces(last_call.lot_id))

\* lot 14 with 15 of its 50 spaces free was classified Available
C18_Witness ==
    /\ last_call.op = "get_status" /\ last_call.lot_id = "14"
    /\ total_spaces("14") = 50 /\ available_spaces("14") = 15
    /\ last_call.ret = "Available"

\* the access policy table: the pairs (permit class, requester class) that
\* are permitted
AccessTable ==
    {<<"Open", "Student">>, <<"Open", "Staff">>, <<"Open", "Visitor">>,
     <<"Both", "Student">>, <<"Both", "Staff">>,
     <<"Student", "Student">>,
     <<"Staff", "Staff">>}

\* C19: can_user_park gives, for every pair of permit class and requester
\* class, the table's value: Open permits Student, Staff and Visitor; Both
\* permits Student and Staff only; Student permits Student only; Staff
\* permits Staff only; a Visitor is permitted on Open lots and nowhere else.
C19_AccessPolicyTable ==
    /\ \A permit \in {"Open", "Both", "Student", "Staff"} :
          \A user_type \in UserTypes :
             can_user_park(permit, user_type) =
                (<<permit, user_type>> \in AccessTable)
    /\ last_call.op = "can_user_park" =>
          /\ last_call.ret =
                (<<permit_type(last_call.lot_id), last_call.user_type>>
                    \in AccessTable)
          /\ last_call.user_type = "Visitor" =>
                (last_call.ret <=> permit_type(last_call.lot_id) = "Open")

\* a Visitor was refused on lot 19, whose permit class is Both
C19_Witness ==
    /\ last_call.op = "can_user_park" /\ last_call.user_type = "Visitor"
    /\ last_call.lot_id = "19" /\ permit_type("19") = "Both"
    /\ last_call.ret = FALSE

\* C20: get_recommended_lots(requester) and User.get_permitted_lots return
\* exactly the lots the requester may use, each once, in the catalog's
\* order 17, 18, 19, 14: Student [17, 19, 14], Staff [18, 19, 14],
\* Visitor [14].
C20_RecommendationRanking ==
    last_call.op \in {"get_recommended_lots", "get_permitted_lots"} =>
        /\ last_call.user_type = "Student" => last_call.ret = <<"17", "19", "14">>
        /\ last_call.user_type = "Staff" => last_call.ret = <<"18", "19", "14">>
        /\ last_call.user_type = "Visitor" => last_call.ret = <<"14">>
        /\ \A lot_id \in LotIds :
              Cardinality({i \in 1..Len(last_call.ret) :
                              last_call.ret[i] = lot_id}) =
                 IF <<permit_type(lot_id), last_call.user_type>> \in AccessTable
                 THEN 1 ELSE 0
        /\ \A i \in 1..Len(last_call.ret) : \A j \in 1..Len(last_call.ret) :
              i < j =>
                 \E a \in 1..Len(LotOrder) : \E b \in 1..Len(LotOrder) :
                    /\ a < b
                    /\ LotOrder[a] = last_call.ret[i]
                    /\ LotOrder[b] = last_call.ret[j]

\* the recommendation for Staff came out as 18, 19, 14 while lot 18 was full
C20_Witness ==
    /\ last_call.op = "get_recommended_lots" /\ last_call.user_type = "Staff"
    /\ last_call.ret = <<"18", "19", "14">>
    /\ available_spaces("18") = 0

(* ------------------------- the client's loop -------------------------- *)
\* the loop thread enters refresh_parking_data (and sends its request)
LoopStartsFetch == gui_pc["loop"] = "call" /\ gui_pc'["loop"] = "fetch"

(* C21: once on_closing has cleared auto_refresh_enabled, the loop thread  *)
(* begins no refresh_parking_data call                                     *)
C21_NoFetchAfterShutdown ==
    [][~auto_refresh_enabled => ~LoopStartsFetch]_vars

\* the counts of one result: a snapshot of the server (the store of
\* __init__ is the all-empty one), or synthetic counts for every lot
FromOneResult(view) ==
    \/ \E c \in ServerLevels :
          \A k \in 1..Len(view) :
             view[k].available_spaces =
                total_spaces(view[k].lot_id) -
                clamp_occupancy(c[view[k].lot_id], total_spaces(view[k].lot_id))
    \/ \A k \in 1..Len(view) :
          total_spaces(view[k].lot_id) - view[k].available_spaces
             \in SyntheticRange(view[k].lot_id)

(* C22: the cards display_lots has built from all recommended lots carry   *)
(* the counts of one fetch result or of one fallback, never a mixture      *)
C22_AtomicSnapshot ==
    \A t \in GuiThreads :
       (gui_pc[t] = "cards" /\ frame[t].todo = <<>>)
          => FromOneResult(frame[t].view)

Synthetic ==
    \A lot_id \in LotIds : occupied_spaces[lot_id] \in SyntheticRange(lot_id)

NoCheckPassed ==
    /\ gui_pc'["loop"] = "sleep" => gui_pc["loop"] = "sleep"
    /\ gui_pc'["loop"] = "call" => gui_pc["loop"] = "call"

(* C24: once on_closing has cleared auto_refresh_enabled, the thread of   *)
(* refresh_loop eventually ends, after at most the sleep it is in and at   *)
(* most one refresh that had passed the flag check                         *)
C24_LoopTerminates ==
    /\ (~auto_refresh_enabled) ~> (gui_pc["loop"] \in {"done", "killed"})
    /\ [][~auto_refresh_enabled => NoCheckPassed]_vars

\* the loop has ended by its own `while` check after the cancellation
C24_Witness ==
    /\ ~auto_refresh_enabled
    /\ gui_pc["loop"] = "done"
    /\ gui_pc["main"] = "closing"

(* ----------------------- refresh_data's outcomes ----------------------- *)
(* C25: every refresh_data() call either applied the server's counts,      *)
(* returned True and left the client Connected, or applied synthetic       *)
(* counts to every lot, returned False and left it Disconnected; the       *)
(* source shown from the return value agrees with is_server_connected()    *)
C25_RefreshTwoOutcomes ==
    last_call.op = "refresh_data" =>
        /\ \/ /\ last_call.ret = "True"
              /\ is_server_connected
              /\ \A lot_id \in LotIds :
                    occupied_spaces[lot_id] =
                       clamp_occupancy(server_reported[lot_id],
                                       total_spaces(lot_id))
           \/ /\ last_call.ret = "False"
              /\ ~is_server_connected
              /\ Synthetic
        /\ (source(last_call.ret) = "server") = is_server_connected

(* ------------------------ counts in a response ------------------------ *)
(* C26: in every GET /api/lots snapshot and in every toggle success body   *)
(* the occupied and the available count of a lot add up to its             *)
(* total_spaces, also beside a concurrent mutating request                 *)
C26_CountsAddUp ==
    \A t \in Threads :
        (pc[t] = "done" /\ resp[t].status = 200) =>
            /\ req[t].r.op = "get_all_lots" =>
                  \A i \in 1..Len(resp[t].lots) :
                     resp[t].lots[i].occupied_spaces +
                     resp[t].lots[i].available_spaces =
                        total_spaces(resp[t].lots[i].lot_id)
            /\ req[t].r.op = "toggle" =>
                  resp[t].occupied_count + resp[t].available_count =
                     total_spaces(req[t].r.lot_id)

(* -------------------------- frame of a toggle ------------------------- *)
\* the one request of the finished batch is a toggle answered with 200
ToggleSucceeded ==
    /\ AllIdle /\ Len(log) = 1
    /\ log[1].r.op = "toggle" /\ Mutates(log[1].r)
    /\ resp[log[1].t].status = 200

(* C27: a successful toggle of index i of lot L changes bit i of L and     *)
(* nothing else: the other bits of L, the other lots, the capacities and   *)
(* the permit types stay, L's occupied count moves by +1 or -1, and the    *)
(* response's 'occupied' is the new value of bit i                         *)
C27_ToggleFrame ==
    ToggleSucceeded =>
        LET L == log[1].r.lot_id
            i == log[1].r.space_index
            old == base[L].spaces
            new == PARKING_LOTS[L].spaces
        IN  /\ new[i] = ~old[i]
            /\ DOMAIN new = DOMAIN old
            /\ \A j \in DOMAIN old : j # i => new[j] = old[j]
            /\ \A lot_id \in LotIds \ {L} :
                  PARKING_LOTS[lot_id] = base[lot_id]
            /\ \A lot_id \in LotIds :
                  /\ PARKING_LOTS[lot_id].total_spaces = base[lot_id].total_spaces
                  /\ PARKING_LOTS[lot_id].permit_type = base[lot_id].permit_type
            /\ get_occupied_count(L) = Sum(old) + (IF new[i] THEN 1 ELSE -1)
            /\ resp[log[1].t].occupied = new[i]

\* an occupied space of a partly occupied lot was freed by the toggle
C27_Witness ==
    /\ ToggleSucceeded
    /\ base[log[1].r.lot_id].spaces[log[1].r.space_index]
    /\ ~PARKING_LOTS[log[1].r.lot_id].spaces[log[1].r.space_index]
    /\ get_occupied_count(log[1].r.lot_id) > 0
    /\ ~resp[log[1].t].occupied

(* ------------------- recommendations and occupancy -------------------- *)
\* the recommendation of each requester class on the client as constructed
Ranking(user_type) ==
    CASE user_type = "Student" -> <<"17", "19", "14">>
      [] user_type = "Staff" -> <<"18", "19", "14">>
      [] OTHER -> <<"14">>

(* C28: whatever the counts and whether the client is Connected or not,    *)
(* get_recommended_lots returns the same sequence for a requester class;   *)
(* a lot that is Full is listed at its rank, rank 1 included               *)
C28_RecommendationsIgnoreOccupancy ==
    last_call.op = "get_recommended_lots" =>
        LET expected == Ranking(last_call.user_type)
        IN  /\ Len(last_call.ret) = Len(expected)
            /\ \A k \in 1..Len(expected) :
                  /\ last_call.ret[k] = expected[k]
                  /\ get_status(occupied_spaces[expected[k]],
                                total_spaces(expected[k])) = "Full"
                        => (k <= Len(last_call.ret) /\ last_call.ret[k] = expected[k])

\* a Connected client whose lot 17 is Full recommended it to a Student at
\* rank 1
C28_Witness ==
    /\ last_call.op = "get_recommended_lots" /\ last_call.user_type = "Student"
    /\ is_server_connected
    /\ get_status(occupied_spaces["17"], total_spaces("17")) = "Full"
    /\ last_call.ret[1] = "17"

====
